---- MODULE Spec2Model ----
(***************************************************************************)
(* Model of src/server.js: the POST /flow/edit-shipping-lines handler of   *)
(* the edit-shipping-lines relay (the first registration of the route,     *)
(* lines 163-317, which Express dispatches to; it always answers and never *)
(* calls next(), so the later registration of the same route is shadowed). *)
(*                                                                         *)
(* JavaScript values are tagged records: Undef, Null, Str(chars), NumV(n). *)
(* Strings that the code inspects are sequences of one-character strings.  *)
(* Finite numbers are integers counting hundredths (5.00 is 500).          *)
(* The remote GraphQL service is a black box: each answer is chosen        *)
(* nondeterministically among the shapes the code distinguishes.           *)
(***************************************************************************)
EXTENDS Integers, Sequences, FiniteSets, TLC

(* ------------------------------ bounds --------------------------------- *)
\* at most this many shipping lines in a fetched order
MaxLines == 2

(* --------------------------- JavaScript values -------------------------- *)
Undef == [t |-> "undef"]
Null == [t |-> "null"]
Str(s) == [t |-> "str", s |-> s]
NumV(n) == [t |-> "num", k |-> "fin", n |-> n]
NaN == [t |-> "num", k |-> "nan", n |-> 0]
Infinity == [t |-> "num", k |-> "inf", n |-> 0]

\* JavaScript truthiness of a value (the operand of ! and ||)
Truthy(v) ==
  CASE v.t = "undef" -> FALSE
    [] v.t = "null" -> FALSE
    [] v.t = "str" -> Len(v.s) > 0
    [] v.t = "num" -> ~(v.k = "nan" \/ (v.k = "fin" /\ v.n = 0))
    [] OTHER -> TRUE

\* variant: only NaN is refused
NotNaN(v) == v.t = "num" /\ v.k # "nan"

\* Number.isFinite
IsFinite(v) == v.t = "num" /\ v.k = "fin"

Lower == {"a","b","c","d","e","f","g","h","i","j","k","l","m","n","o","p","q","r","s","t","u","v","w","x","y","z"}
Digit == {"0","1","2","3","4","5","6","7","8","9"}
Space == {" "}

DigitVal(c) ==
  CASE c = "0" -> 0 [] c = "1" -> 1 [] c = "2" -> 2 [] c = "3" -> 3 [] c = "4" -> 4
    [] c = "5" -> 5 [] c = "6" -> 6 [] c = "7" -> 7 [] c = "8" -> 8 [] c = "9" -> 9

\* String(v || '') for the value shapes a request carries (strings, absent)
StringOrEmpty(v) == IF Truthy(v) /\ v.t = "str" THEN v.s ELSE << >>

StartsWith(s, p) == Len(s) >= Len(p) /\ SubSeq(s, 1, Len(p)) = p
EndsWith(s, p) == Len(s) >= Len(p) /\ SubSeq(s, Len(s) - Len(p) + 1, Len(s)) = p
AllIn(s, C) == \A i \in 1..Len(s) : s[i] \in C

\* String.prototype.trim
RECURSIVE TrimLeft(_)
TrimLeft(s) == IF s # << >> /\ Head(s) \in Space THEN TrimLeft(Tail(s)) ELSE s
RECURSIVE TrimRight(_)
TrimRight(s) ==
  IF s # << >> /\ s[Len(s)] \in Space THEN TrimRight(SubSeq(s, 1, Len(s) - 1)) ELSE s
Trim(s) == TrimRight(TrimLeft(s))

ShopSuffix == <<".","m","y","s","h","o","p","i","f","y",".","c","o","m">>
GidPrefix == <<"g","i","d",":","/","/","s","h","o","p","i","f","y","/","O","r","d","e","r","/">>

\* /^[a-z0-9-]+\.myshopify\.com$/.test(String(s || ''))
isValidShop(v) ==
  LET s == StringOrEmpty(v) IN
    /\ EndsWith(s, ShopSuffix)
    /\ Len(s) > Len(ShopSuffix)
    /\ AllIn(SubSeq(s, 1, Len(s) - Len(ShopSuffix)), Lower \cup Digit \cup {"-"})

\* byte-wise comparison of equal-length buffers (crypto.timingSafeEqual)
timingSafeEqual(A, B) == \A i \in 1..Len(A) : A[i] = B[i]

\* variant: only the lengths are compared
tscEqLengthOnly(a, b) == Len(StringOrEmpty(a)) = Len(StringOrEmpty(b))

tscEq(a, b) ==
  LET A == StringOrEmpty(a)
      B == StringOrEmpty(b)
  IN Len(A) = Len(B) /\ timingSafeEqual(A, B)

\* variant: an all-digits reference is passed on without the prefix
toOrderGidNoWrap(v) ==
  LET s == StringOrEmpty(v) IN
    IF s = << >> THEN Null
    ELSE IF StartsWith(s, GidPrefix) \/ AllIn(s, Digit) THEN Str(s)
    ELSE Null

toOrderGid(v) ==
  LET s == StringOrEmpty(v) IN
    IF s = << >> THEN Null
    ELSE IF StartsWith(s, GidPrefix) THEN Str(s)
    ELSE IF AllIn(s, Digit) THEN Str(GidPrefix \o s)
    ELSE Null

\* a || b
Or(a, b) == IF Truthy(a) THEN a ELSE b

(* parseFloat: skip leading blanks, optional sign, then the longest prefix  *)
(* digits [. digits]; no digit at all gives NaN.  The value is kept in      *)
(* hundredths, so fraction digits after the second are dropped.             *)
RECURSIVE DigitRun(_)
DigitRun(s) == IF s # << >> /\ Head(s) \in Digit THEN <<Head(s)>> \o DigitRun(Tail(s)) ELSE << >>
RECURSIVE IntOf(_)
IntOf(d) == IF d = << >> THEN 0 ELSE IntOf(SubSeq(d, 1, Len(d) - 1)) * 10 + DigitVal(d[Len(d)])
Hundredths(f) ==
  IF Len(f) = 0 THEN 0
  ELSE IF Len(f) = 1 THEN DigitVal(f[1]) * 10
  ELSE DigitVal(f[1]) * 10 + DigitVal(f[2])
InfinityWord == <<"I","n","f","i","n","i","t","y">>

parseFloatStr(s0) ==
  LET s1 == TrimLeft(s0)
      neg == s1 # << >> /\ Head(s1) = "-"
      s2 == IF s1 # << >> /\ Head(s1) \in {"-", "+"} THEN Tail(s1) ELSE s1
      ip == DigitRun(s2)
      r1 == SubSeq(s2, Len(ip) + 1, Len(s2))
      fp == IF r1 # << >> /\ Head(r1) = "." THEN DigitRun(Tail(r1)) ELSE << >>
      mag == IntOf(ip) * 100 + Hundredths(fp)
  IN IF StartsWith(s2, InfinityWord) THEN Infinity
     ELSE IF ip = << >> /\ fp = << >> THEN NaN
     ELSE NumV(IF neg THEN 0 - mag ELSE mag)

\* parseFloat(v): the argument is converted to a string first
parseFloat(v) ==
  CASE v.t = "str" -> parseFloatStr(v.s)
    [] v.t = "num" -> v
    [] OTHER -> NaN


(* ------------------------- startup configuration ------------------------ *)
UKShop == <<"u","k">> \o ShopSuffix
EUShop == <<"e","u","-","1">> \o ShopSuffix
USShop == <<"u","s">> \o ShopSuffix
SecretUK == <<"s","3","c">>

\* process.env as the candidate list reads it: one deployment with a secret
\* region, a secret-less region and an unset region; one deployment where two
\* candidates carry the same storefront domain, and a region without a token
\* whose secret is the empty string
Environments ==
  { [UK |-> [shop |-> Str(UKShop), adminToken |-> Str(<<"tokUK">>), flowSecret |-> Str(SecretUK)],
     EU |-> [shop |-> Str(EUShop), adminToken |-> Str(<<"tokEU">>), flowSecret |-> Undef],
     US |-> [shop |-> Undef, adminToken |-> Str(<<"tokUS">>), flowSecret |-> Undef]],
    [UK |-> [shop |-> Str(UKShop), adminToken |-> Str(<<"tokUK">>), flowSecret |-> Str(SecretUK)],
     EU |-> [shop |-> Str(UKShop), adminToken |-> Str(<<"tokEU">>), flowSecret |-> Undef],
     US |-> [shop |-> Str(USShop), adminToken |-> Undef, flowSecret |-> Str(<< >>)]] }

Candidates(env) ==
  << [t |-> "obj", code |-> "UK", shop |-> env.UK.shop, adminToken |-> env.UK.adminToken, flowSecret |-> env.UK.flowSecret],
     [t |-> "obj", code |-> "EU", shop |-> env.EU.shop, adminToken |-> env.EU.adminToken, flowSecret |-> env.EU.flowSecret],
     [t |-> "obj", code |-> "US", shop |-> env.US.shop, adminToken |-> env.US.adminToken, flowSecret |-> env.US.flowSecret] >>

\* Array.prototype.filter(r => r.shop)
RECURSIVE FilterShop(_)
FilterShop(rs) ==
  IF rs = << >> THEN << >>
  ELSE IF Truthy(Head(rs).shop) THEN <<Head(rs)>> \o FilterShop(Tail(rs))
  ELSE FilterShop(Tail(rs))

\* new Map(regions.map(r => [r.shop, r])): a later entry replaces an earlier
\* one with the same key
MapOf(rs) ==
  [d \in {rs[i].shop : i \in 1..Len(rs)} |->
     rs[CHOOSE i \in 1..Len(rs) :
          rs[i].shop = d /\ \A j \in 1..Len(rs) : rs[j].shop = d => j <= i]]

\* Map.prototype.get
MapGet(m, key) == IF key \in DOMAIN m THEN m[key] ELSE Undef

(* ------------------------------- state ---------------------------------- *)
\* remote is the history of what the remote did to each gateway call and
\* session the handle the remote gave to the request's Begin call; health is
\* the latest answer of GET /health
VARIABLES regions, byShop, debug, health, pc, req, loc, net, calls, resp, remote, session
vars == <<regions, byShop, debug, health, pc, req, loc, net, calls, resp, remote, session>>

\* the requests of a behaviour
Requests == DOMAIN pc

NoReq == [body |-> Undef, secret |-> Undef]
\* a local variable of the handler that has not been assigned yet; data is
\* the json.data of the latest mutation (d2, d3, d4 or d5)
Unset == [t |-> "unset"]
NoLocals ==
  [region |-> Unset, gid |-> Unset, order |-> Unset, current |-> Unset, price |-> Unset,
   calculatedOrderId |-> Unset, data |-> Unset]
NetIdle == [phase |-> "none", timer |-> FALSE, ok |-> FALSE]

InitWith(R) ==
  /\ \E env \in Environments :
       /\ regions = FilterShop(Candidates(env))
       /\ byShop = MapOf(FilterShop(Candidates(env)))
  /\ debug \in BOOLEAN
  /\ health = Undef
  /\ pc = [r \in R |-> "idle"]
  /\ req = [r \in R |-> NoReq]
  /\ loc = [r \in R |-> NoLocals]
  /\ net = [r \in R |-> NetIdle]
  /\ calls = [r \in R |-> << >>]
  /\ resp = [r \in R |-> << >>]
  /\ remote = [r \in R |-> << >>]
  /\ session = [r \in R |-> Unset]

Init == InitWith({1})


(* --------------------------- request inputs ----------------------------- *)
ShopInputs ==
  { Undef, Str(UKShop), Str(EUShop), Str(USShop),
    Str(<<"x","x">> \o ShopSuffix),            \* well-formed, not configured
    Str(<<"U","K">> \o ShopSuffix),            \* upper case
    Str(ShopSuffix),                           \* empty label
    Str(UKShop \o <<".","e","v","i","l">>) }   \* trailing text
SecretInputs ==
  { Undef, Str(<< >>), Str(SecretUK), Str(<<"s","3","x">>), Str(SecretUK \o <<"c">>) }
GidInputs ==
  { Undef, Str(GidPrefix \o <<"4","2">>), Str(<<"4","2">>), Str(<<"4","x">>) }
IdInputs ==
  { Undef, Str(<<"7">>), Str(<<"o","7">>), Str(GidPrefix \o <<"9">>) }
TitleInputs ==
  { Undef, Str(<< >>), Str(<<" "," ">>), Str(<<"D","H","L">>), Str(<<" ","X">>) }
PriceInputs ==
  { Undef, Null, NumV(250), NumV(0), Str(<<"1",".","5">>), Str(<<"a","b","c">>), Infinity }

Body(shop, gid, id, title, price, dry) ==
  [shopDomain |-> shop, orderGid |-> gid, orderId |-> id,
   targetShippingTitle |-> title, targetShippingPrice |-> price, dryRun |-> dry]

\* previews (dryRun) that exercise the boundary checks, and requests that
\* pass them and exercise the sequence with every price and dry-run setting
BoundaryInputs ==
  { [body |-> Body(s, g, i, t, Undef, TRUE), secret |-> h] :
      s \in ShopInputs, g \in GidInputs, i \in IdInputs, t \in TitleInputs, h \in SecretInputs }
SequenceInputs ==
  { [body |-> Body(s, g, Str(<<"7">>), t, p, d), secret |-> Str(SecretUK)] :
      s \in {Str(UKShop), Str(EUShop)}, g \in {Undef, Str(GidPrefix \o <<"4","2">>)},
      t \in {Str(<<"D","H","L">>)}, p \in PriceInputs, d \in BOOLEAN }
RequestInputs == BoundaryInputs \cup SequenceInputs

(* --------------------------- remote answers ----------------------------- *)
Line(id, title, amount) == [t |-> "obj", id |-> id, title |-> title, amount |-> amount]
\* amount is originalPriceSet?.shopMoney?.amount, Undef when a link is absent
LineValues ==
  { Line("L1", "Standard", Str(<<"5",".","0","0">>)),
    Line("L2", "Express", Str(<<"1","2",".","5">>)),
    Line("L3", "Broken", Str(<<"n","/","a">>)),
    Line("L4", "Bare", Undef) }
RECURSIVE SeqsUpTo(_, _)
SeqsUpTo(S, n) ==
  IF n = 0 THEN {<< >>}
  ELSE SeqsUpTo(S, n - 1) \cup {Append(q, x) : q \in {w \in SeqsUpTo(S, n - 1) : Len(w) = n - 1}, x \in S}
Arr(a) == [t |-> "arr", a |-> a]
OrderValues ==
  { [t |-> "obj", name |-> "#1001", shippingLines |-> Null] } \cup
  { [t |-> "obj", name |-> "#1001", shippingLines |-> [t |-> "obj", nodes |-> Arr(ls)]] :
      ls \in SeqsUpTo(LineValues, MaxLines) }
\* json.data of the GetOrder answer; Undef when the body has no data member
FetchData == {Undef} \cup {[t |-> "obj", order |-> o] : o \in {Null} \cup OrderValues}

Handles == {"calc-1", "calc-2"}
UserErrorLists == {Arr(<< >>), Arr(<<"err">>)}
BeginPayloads ==
  {Null} \cup
  { [t |-> "obj", calculatedOrder |-> co, userErrors |-> ue] :
      co \in {Null, [t |-> "obj", id |-> Undef]} \cup {[t |-> "obj", id |-> Str(<<h>>)] : h \in Handles},
      ue \in UserErrorLists }
EditPayloads == {Null} \cup {[t |-> "obj", userErrors |-> ue] : ue \in UserErrorLists}
BeginData == {Undef} \cup {[t |-> "obj", payload |-> p] : p \in BeginPayloads}
EditData == {Undef} \cup {[t |-> "obj", payload |-> p] : p \in EditPayloads}

\* reasons for which shopifyGraphQL throws once the body has been read
BodyFailures == {"http", "nonjson", "errors"}


(* ------------------------------ utilities ------------------------------- *)
\* o?.f
Opt(o, f) == IF o.t \in {"undef", "null"} THEN Undef ELSE o[f]

\* variant: details are attached whatever the debug toggle says
errResAlwaysDetails(code, msg, details) ==
  [status |-> code,
   body |-> IF Truthy(details) THEN [error |-> msg, details |-> details] ELSE [error |-> msg]]

\* errRes(res, code, msg, details): the response it sends
errRes(code, msg, details) ==
  [status |-> code,
   body |-> IF debug /\ Truthy(details) THEN [error |-> msg, details |-> details]
            ELSE [error |-> msg]]

\* res.json(body)
okRes(body) == [status |-> 200, body |-> body]

\* e.stack of an error: its name and message, then the frames
Stack(name, message) == Str(<<name, ": ">> \o message \o <<"\n    at ...">>)

\* variant: the catch clause always sends the stack
CaughtWithStack(stack) == [status |-> 500, body |-> [error |-> <<"Server error">>, details |-> stack]]

\* the catch clause of the handler
Caught(stack) == errRes(500, <<"Server error">>, stack)

\* reading a member of the undefined json.data
NoDataError(member) ==
  Stack("TypeError", <<"Cannot read properties of undefined (reading '", member, "')">>)

\* payload?.userErrors || []
UserErrorsOf(payload) ==
  LET ue == Opt(payload, "userErrors") IN IF Truthy(ue) THEN ue.a ELSE << >>

\* variant: the user-errors list is never looked at
assertNothing(stepName, payload) == FALSE

\* assertUserErrors(stepName, payload) throws
assertUserErrors(stepName, payload) == Len(UserErrorsOf(payload)) > 0
UserErrorsStack(stepName, payload) ==
  Stack("Error", <<stepName, " userErrors: ">> \o UserErrorsOf(payload))

\* outcomes of a stretch of the handler between two awaits
Res(response) == [k |-> "res", res |-> response]
Call(query, variables) == [k |-> "call", query |-> query, variables |-> variables]

\* variant: the response is sent without return, the handler is not over
RespondAndGoOn(r, response) ==
  /\ resp' = [resp EXCEPT ![r] = Append(@, response)]
  /\ UNCHANGED <<pc, net, calls>>

\* res.status(..).json(..) followed by return: the handler is over
Respond(r, response) ==
  /\ resp' = [resp EXCEPT ![r] = Append(@, response)]
  /\ pc' = [pc EXCEPT ![r] = "done"]
  /\ net' = [net EXCEPT ![r] = NetIdle]
  /\ UNCHANGED calls

\* variant: timedFetch starts the call without arming the timer
shopifyGraphQLNoTimer(r, region, query, variables) ==
  IF ~Truthy(region.adminToken)
  THEN Respond(r, Caught(Stack("Error", <<"Shopify token not configured for shop (", region.code, ")">>)))
  ELSE /\ calls' = [calls EXCEPT ![r] =
                      Append(@, [query |-> query, shop |-> region.shop,
                                 token |-> region.adminToken, variables |-> variables])]
       /\ net' = [net EXCEPT ![r] = [phase |-> "headers", timer |-> FALSE, ok |-> FALSE]]
       /\ pc' = [pc EXCEPT ![r] = query]
       /\ UNCHANGED resp

\* variant: the call is made without looking at the token
shopifyGraphQLNoTokenCheck(r, region, query, variables) ==
  /\ calls' = [calls EXCEPT ![r] =
                 Append(@, [query |-> query, shop |-> region.shop,
                            token |-> region.adminToken, variables |-> variables])]
  /\ net' = [net EXCEPT ![r] = [phase |-> "headers", timer |-> TRUE, ok |-> FALSE]]
  /\ pc' = [pc EXCEPT ![r] = query]
  /\ UNCHANGED resp

\* shopifyGraphQL up to its first await: the token check, then timedFetch
\* arms the timer and starts the HTTP call
shopifyGraphQL(r, region, query, variables) ==
  IF ~Truthy(region.adminToken)
  THEN Respond(r, Caught(Stack("Error", <<"Shopify token not configured for shop (", region.code, ")">>)))
  ELSE /\ calls' = [calls EXCEPT ![r] =
                      Append(@, [query |-> query, shop |-> region.shop,
                                 token |-> region.adminToken, variables |-> variables])]
       /\ net' = [net EXCEPT ![r] = [phase |-> "headers", timer |-> TRUE, ok |-> FALSE]]
       /\ pc' = [pc EXCEPT ![r] = query]
       /\ UNCHANGED resp

\* variant: calculatedOrderId is a binding of the module, shared by every
\* request, instead of a local of the handler
StepSharedHandle(r, l, o) ==
  /\ loc' = [q \in DOMAIN loc |->
               IF q = r THEN l ELSE [loc[q] EXCEPT !.calculatedOrderId = l.calculatedOrderId]]
  /\ IF o.k = "res" THEN Respond(r, o.res)
     ELSE shopifyGraphQL(r, l.region, o.query, o.variables)

\* run the handler from one await to the next with locals l and outcome o
Step(r, l, o) ==
  /\ loc' = [loc EXCEPT ![r] = l]
  /\ IF o.k = "res" THEN Respond(r, o.res)
     ELSE shopifyGraphQL(r, l.region, o.query, o.variables)


(* ------------------- the handler, await by await ------------------------ *)
\* variant: the title is not trimmed before the emptiness test
BlankTitleNoTrim(title) == StringOrEmpty(title) = << >>

\* String(targetShippingTitle).trim() is empty
BlankTitle(title) == Trim(StringOrEmpty(title)) = << >>

\* lines 165-210: the boundary checks, then the GetOrder call
OnRequest(l, inp) ==
  LET b == inp.body
      region == MapGet(byShop, b.shopDomain)
      gid == Or(toOrderGid(b.orderGid), toOrderGid(b.orderId))
  IN IF ~Truthy(b.shopDomain) \/ ~isValidShop(b.shopDomain)
     THEN [loc |-> l, out |-> Res(errRes(400, <<"Missing/invalid shopDomain">>, b.shopDomain))]
     ELSE IF ~Truthy(region)
     THEN [loc |-> [l EXCEPT !.region = region],
           out |-> Res(errRes(400, <<"Shop not recognized: ">> \o b.shopDomain.s, Undef))]
     ELSE IF Truthy(region.flowSecret) /\ ~tscEq(inp.secret, region.flowSecret)
     THEN [loc |-> [l EXCEPT !.region = region],
           out |-> Res(errRes(401, <<"Bad X-Flow-Secret">>, Undef))]
     ELSE IF ~Truthy(gid)
     THEN [loc |-> [l EXCEPT !.region = region, !.gid = gid],
           out |-> Res(errRes(400, <<"Missing/invalid orderGid/orderId">>, Undef))]
     ELSE IF ~Truthy(b.targetShippingTitle) \/ BlankTitle(b.targetShippingTitle)
     THEN [loc |-> [l EXCEPT !.region = region, !.gid = gid],
           out |-> Res(errRes(400, <<"Missing targetShippingTitle">>, Undef))]
     ELSE [loc |-> [l EXCEPT !.region = region, !.gid = gid],
           out |-> Call("GetOrder", [id |-> gid])]

\* variant: the last shipping line is taken as the current one
LastLine(order) ==
  LET nodes == Opt(Opt(order, "shippingLines"), "nodes")
      last == IF nodes.t \in {"undef", "null"} \/ Len(nodes.a) = 0 THEN Undef ELSE nodes.a[Len(nodes.a)]
  IN Or(last, Null)

\* order.shippingLines?.nodes?.[0] || null
FirstLine(order) ==
  LET nodes == Opt(Opt(order, "shippingLines"), "nodes")
      first == IF nodes.t \in {"undef", "null"} \/ Len(nodes.a) = 0 THEN Undef ELSE nodes.a[1]
  IN Or(first, Null)

\* variant: the live answer reports the price the caller asked for
EditResultAskedPrice(l, b, dry) ==
  LET price == IF dry THEN l.price ELSE Or(b.targetShippingPrice, NumV(0))
      common ==
        [ok |-> TRUE, shopDomain |-> b.shopDomain, orderName |-> l.order.name,
         mode |-> IF Truthy(l.current) THEN "replace" ELSE "add",
         from |-> IF Truthy(l.current)
                  THEN [t |-> "obj", id |-> l.current.id, title |-> l.current.title, price |-> l.price]
                  ELSE Null,
         to |-> [title |-> b.targetShippingTitle, price |-> price]]
  IN IF dry THEN [f \in DOMAIN common \cup {"dryRun"} |-> IF f = "dryRun" THEN TRUE ELSE common[f]]
     ELSE common

\* the success body of lines 234-242 and 305-312
EditResult(l, b, dry) ==
  LET common ==
        [ok |-> TRUE, shopDomain |-> b.shopDomain, orderName |-> l.order.name,
         mode |-> IF Truthy(l.current) THEN "replace" ELSE "add",
         from |-> IF Truthy(l.current)
                  THEN [t |-> "obj", id |-> l.current.id, title |-> l.current.title, price |-> l.price]
                  ELSE Null,
         to |-> [title |-> b.targetShippingTitle, price |-> l.price]]
  IN IF dry THEN [f \in DOMAIN common \cup {"dryRun"} |-> IF f = "dryRun" THEN TRUE ELSE common[f]]
     ELSE common

\* variant: an unparseable caller price counts as 0
CallerPriceOrZero(b) ==
  LET p == parseFloat(b.targetShippingPrice) IN IF p.t = "num" /\ p.k = "fin" THEN p ELSE NumV(0)

\* variant: no default for an absent caller price
CallerPriceNoDefault(b) == parseFloat(b.targetShippingPrice)

\* lines 225-227: the caller's price, 0 when absent
CallerPrice(b) ==
  IF b.targetShippingPrice \in {Undef, Null} THEN NumV(0) ELSE parseFloat(b.targetShippingPrice)

\* variant: a caller price, when given, replaces the price of the line
ExistingPriceUnlessGiven(current, b) ==
  IF b.targetShippingPrice \in {Undef, Null} THEN parseFloat(current.amount)
  ELSE parseFloat(b.targetShippingPrice)

\* lines 221-222: the price read from the current line
ExistingPrice(current, b) == parseFloat(current.amount)

\* variant: the dry-run flag is ignored
AlwaysBegin(l, b) == Call("Begin", [id |-> l.gid])

\* lines 233-254: the dry-run answer, else the Begin call
PreviewOrBegin(l, b) ==
  IF b.dryRun THEN Res(okRes(EditResult(l, b, TRUE)))
  ELSE Call("Begin", [id |-> l.gid])

\* variant: an absent order falls to the generic answer
OrderNotFoundGeneric == errRes(500, <<"Server error">>, Undef)

\* line 212: the answer for an absent order
OrderNotFound == errRes(404, <<"Order not found">>, Undef)

\* lines 211-254: the order, the mode and the price, the dry-run answer,
\* then the Begin call
OnGetOrder(l, inp, d1) ==
  LET b == inp.body IN
  IF d1 = Undef THEN [loc |-> l, out |-> Res(Caught(NoDataError("order")))]
  ELSE
  LET order == d1.order
      l1 == [l EXCEPT !.order = order]
  IN IF ~Truthy(order) THEN [loc |-> l1, out |-> Res(OrderNotFound)]
     ELSE
     LET current == FirstLine(order)
         l2 == [l1 EXCEPT !.current = current]
     IN IF Truthy(current)
        THEN LET amountStr == current.amount
                 price == ExistingPrice(current, b)
                 l3 == [l2 EXCEPT !.price = price]
             IN IF ~IsFinite(price)
                THEN [loc |-> l3,
                      out |-> Res(errRes(500, <<"Invalid existing shipping price">>, amountStr))]
                ELSE [loc |-> l3, out |-> PreviewOrBegin(l3, b)]
        ELSE LET p == CallerPrice(b)
                 l3 == [l2 EXCEPT !.price = p]
             IN IF ~IsFinite(p)
                THEN [loc |-> l2,
                      out |-> Res(errRes(400, <<"Invalid targetShippingPrice">>, b.targetShippingPrice))]
                ELSE [loc |-> l3, out |-> PreviewOrBegin(l3, b)]

\* variant: only a null handle is refused
MissingHandleNullOnly(calculatedOrderId) == calculatedOrderId = Null

\* line 257: !calculatedOrderId
MissingHandle(calculatedOrderId) == ~Truthy(calculatedOrderId)

\* lines 255-272: the session handle, then the Add call
OnBegin(l, inp, d2) ==
  LET l1 == [l EXCEPT !.data = d2] IN
  IF d2 = Undef THEN [loc |-> l1, out |-> Res(Caught(NoDataError("orderEditBegin")))]
  ELSE IF assertUserErrors("orderEditBegin", d2.payload)
  THEN [loc |-> l1, out |-> Res(Caught(UserErrorsStack("orderEditBegin", d2.payload)))]
  ELSE
  LET calculatedOrderId == Opt(Opt(d2.payload, "calculatedOrder"), "id")
      l2 == [l1 EXCEPT !.calculatedOrderId = calculatedOrderId]
  IN IF MissingHandle(calculatedOrderId)
     THEN [loc |-> l2, out |-> Res(errRes(500, <<"Missing calculatedOrderId">>, Undef))]
     ELSE [loc |-> l2,
           out |-> Call("Add", [id |-> calculatedOrderId,
                                title |-> inp.body.targetShippingTitle, price |-> l.price])]

\* lines 302: the Commit call
CommitCall(l) == Call("Commit", [id |-> l.calculatedOrderId])

\* lines 273-302: after Add, Remove when there was a line, else Commit
OnAdd(l, inp, d3) ==
  LET l1 == [l EXCEPT !.data = d3] IN
  IF d3 = Undef THEN [loc |-> l1, out |-> Res(Caught(NoDataError("orderEditAddShippingLine")))]
  ELSE IF assertUserErrors("orderEditAddShippingLine", d3.payload)
  THEN [loc |-> l1, out |-> Res(Caught(UserErrorsStack("orderEditAddShippingLine", d3.payload)))]
  ELSE IF Truthy(l.current)
  THEN [loc |-> l1,
        out |-> Call("Remove", [id |-> l.calculatedOrderId, shippingLineId |-> l.current.id])]
  ELSE [loc |-> l1, out |-> CommitCall(l1)]

\* variant: the user-errors of Remove are not looked at before Commit
OnRemoveIgnoringErrors(l, inp, d4) ==
  LET l1 == [l EXCEPT !.data = d4] IN
  IF d4 = Undef THEN [loc |-> l1, out |-> Res(Caught(NoDataError("orderEditRemoveShippingLine")))]
  ELSE [loc |-> l1, out |-> CommitCall(l1)]

\* lines 290-302: after Remove, Commit
OnRemove(l, inp, d4) ==
  LET l1 == [l EXCEPT !.data = d4] IN
  IF d4 = Undef THEN [loc |-> l1, out |-> Res(Caught(NoDataError("orderEditRemoveShippingLine")))]
  ELSE IF assertUserErrors("orderEditRemoveShippingLine", d4.payload)
  THEN [loc |-> l1, out |-> Res(Caught(UserErrorsStack("orderEditRemoveShippingLine", d4.payload)))]
  ELSE [loc |-> l1, out |-> CommitCall(l1)]

\* lines 303-312: after Commit, the success answer
OnCommit(l, inp, d5) ==
  LET l1 == [l EXCEPT !.data = d5] IN
  IF d5 = Undef THEN [loc |-> l1, out |-> Res(Caught(NoDataError("orderEditCommit")))]
  ELSE IF assertUserErrors("orderEditCommit", d5.payload)
  THEN [loc |-> l1, out |-> Res(Caught(UserErrorsStack("orderEditCommit", d5.payload)))]
  ELSE [loc |-> l1, out |-> Res(okRes(EditResult(l1, inp.body, FALSE)))]

(* --------------------- what a behaviour draws from ---------------------- *)
\* with one request every input and every remote answer is drawn; with
\* several requests in progress at once, a selection of them
ConcRequests == {1, 2}
Concurrent == Cardinality(Requests) > 1

ConcInputs ==
  { [body |-> Body(s, Str(GidPrefix \o <<"4","2">>), Undef, Str(<<"D","H","L">>), p, d),
     secret |-> Str(SecretUK)] :
      s \in {Str(UKShop), Str(EUShop)}, p \in {Undef, NumV(250)}, d \in BOOLEAN }
ConcFetchData ==
  { [t |-> "obj", order |-> [t |-> "obj", name |-> "#1001",
                             shippingLines |-> [t |-> "obj", nodes |-> Arr(ls)]]] :
      ls \in {<< >>, << Line("L1", "Standard", Str(<<"5",".","0","0">>)) >>} }
ConcBeginData ==
  { [t |-> "obj", payload |-> [t |-> "obj", calculatedOrder |-> [t |-> "obj", id |-> Str(<<h>>)],
                               userErrors |-> Arr(<< >>)]] : h \in Handles } \cup
  { [t |-> "obj", payload |-> [t |-> "obj", calculatedOrder |-> Null, userErrors |-> Arr(<<"err">>)]] }
ConcEditData == {[t |-> "obj", payload |-> [t |-> "obj", userErrors |-> ue]] : ue \in UserErrorLists}

Arriving == IF Concurrent THEN ConcInputs ELSE RequestInputs
HeadAnswers == IF Concurrent THEN {TRUE} ELSE BOOLEAN
BodyFailureAnswers == IF Concurrent THEN {"errors"} ELSE BodyFailures \cup {"read"}
FetchAnswers == IF Concurrent THEN ConcFetchData ELSE FetchData
BeginAnswers == IF Concurrent THEN ConcBeginData ELSE BeginData
EditAnswers == IF Concurrent THEN ConcEditData ELSE EditData

(* ------------------------------- actions -------------------------------- *)
\* Object.fromEntries(regions.map(r => [r.code, Boolean(r.adminToken)])): a
\* later entry replaces an earlier one with the same key
ConfiguredOf(rs) ==
  [c \in {rs[i].code : i \in 1..Len(rs)} |->
     Truthy(rs[CHOOSE i \in 1..Len(rs) :
                 rs[i].code = c /\ \A j \in 1..Len(rs) : rs[j].code = c => j <= i].adminToken)]

\* the body GET /health answers with
HealthBody ==
  [t |-> "obj", ok |-> TRUE,
   shops |-> Arr([i \in 1..Len(regions) |-> regions[i].shop]),
   shopifyConfigured |-> ConfiguredOf(regions),
   apiVersion |-> "2025-07"]

\* a GET /health request is answered
GetHealth ==
  /\ health' = HealthBody
  /\ UNCHANGED <<regions, byShop, debug, pc, req, loc, net, calls, resp, remote, session>>

\* a POST /flow/edit-shipping-lines request arrives
Receive(r) ==
  /\ pc[r] = "idle"
  /\ \E inp \in Arriving :
       LET o == OnRequest(loc[r], inp) IN
         /\ req' = [req EXCEPT ![r] = inp]
         /\ Step(r, o.loc, o.out)
  /\ UNCHANGED <<regions, byShop, debug, health, remote, session>>

\* what the remote did to a call: the way the call failed, or the kind of
\* json.data it answered
Outcome(d) ==
  IF d = Undef THEN "nodata"
  ELSE IF "payload" \in DOMAIN d /\ d.payload # Null /\ d.payload.userErrors.a # << >> THEN "userErrors"
  ELSE "data"
Observe(r, what) == remote' = [remote EXCEPT ![r] = Append(@, what)]
\* the session handle in the remote's answer to Begin, Undef when it has none
Granted(d) ==
  IF d = Undef \/ d.payload = Null \/ d.payload.calculatedOrder = Null THEN Undef
  ELSE d.payload.calculatedOrder.id

InFlight(r) == pc[r] \in {"GetOrder", "Begin", "Add", "Remove", "Commit"}

\* timedFetch: the timer fires while fetch is pending; fetch rejects with
\* the abort reason and the handler's catch clause answers
Timeout(r) ==
  /\ InFlight(r) /\ net[r].timer
  /\ Respond(r, Caught(Stack("Error", <<"timeout">>)))
  /\ Observe(r, "timeout")
  /\ UNCHANGED <<regions, byShop, debug, health, req, loc, session>>

\* timedFetch: fetch rejects for a network reason
FetchRejects(r) ==
  /\ InFlight(r) /\ net[r].phase = "headers"
  /\ Respond(r, Caught(Stack("TypeError", <<"fetch failed">>)))
  /\ Observe(r, "rejected")
  /\ UNCHANGED <<regions, byShop, debug, health, req, loc, session>>

\* timedFetch: fetch resolves with the response head; finally clears the
\* timer; shopifyGraphQL goes on to await r.text()
HeadersArrive(r) ==
  /\ InFlight(r) /\ net[r].phase = "headers"
  /\ \E ok \in HeadAnswers : net' = [net EXCEPT ![r] = [phase |-> "body", timer |-> FALSE, ok |-> ok]]
  /\ UNCHANGED <<regions, byShop, debug, health, pc, req, loc, calls, resp, remote, session>>

\* shopifyGraphQL throws after the body was read (lines 92-94), or r.text()
\* rejects
BodyFails(r) ==
  /\ InFlight(r) /\ net[r].phase = "body"
  /\ \E why \in BodyFailureAnswers :
       /\ why = "http" => ~net[r].ok
       /\ why \in {"nonjson", "errors"} => net[r].ok
       /\ Respond(r, Caught(Stack("Error", <<"Shopify GraphQL ", why>>)))
       /\ Observe(r, why)
  /\ UNCHANGED <<regions, byShop, debug, health, req, loc, session>>

Returned(r, query) == pc[r] = query /\ net[r].phase = "body" /\ net[r].ok

GetOrderReturns(r) ==
  /\ Returned(r, "GetOrder")
  /\ \E d1 \in FetchAnswers : 
       /\ LET o == OnGetOrder(loc[r], req[r], d1) IN Step(r, o.loc, o.out)
       /\ Observe(r, Outcome(d1))
  /\ UNCHANGED <<regions, byShop, debug, health, req, session>>

BeginReturns(r) ==
  /\ Returned(r, "Begin")
  /\ \E d2 \in BeginAnswers : 
       /\ LET o == OnBegin(loc[r], req[r], d2) IN Step(r, o.loc, o.out)
       /\ Observe(r, Outcome(d2))
       /\ session' = [session EXCEPT ![r] = Granted(d2)]
  /\ UNCHANGED <<regions, byShop, debug, health, req>>

AddReturns(r) ==
  /\ Returned(r, "Add")
  /\ \E d3 \in EditAnswers : 
       /\ LET o == OnAdd(loc[r], req[r], d3) IN Step(r, o.loc, o.out)
       /\ Observe(r, Outcome(d3))
  /\ UNCHANGED <<regions, byShop, debug, health, req, session>>

RemoveReturns(r) ==
  /\ Returned(r, "Remove")
  /\ \E d4 \in EditAnswers : 
       /\ LET o == OnRemove(loc[r], req[r], d4) IN Step(r, o.loc, o.out)
       /\ Observe(r, Outcome(d4))
  /\ UNCHANGED <<regions, byShop, debug, health, req, session>>

CommitReturns(r) ==
  /\ Returned(r, "Commit")
  /\ \E d5 \in EditAnswers : 
       /\ LET o == OnCommit(loc[r], req[r], d5) IN Step(r, o.loc, o.out)
       /\ Observe(r, Outcome(d5))
  /\ UNCHANGED <<regions, byShop, debug, health, req, session>>

Next ==
  \/ GetHealth
  \/ \E r \in Requests :
    \/ Receive(r)
    \/ Timeout(r)
    \/ FetchRejects(r)
    \/ HeadersArrive(r)
    \/ BodyFails(r)
    \/ GetOrderReturns(r)
    \/ BeginReturns(r)
    \/ AddReturns(r)
    \/ RemoveReturns(r)
    \/ CommitReturns(r)

Spec == Init /\ [][Next]_vars

\* two requests in progress at once, in the first environment
InitConc ==
  /\ InitWith(ConcRequests)
  /\ ~debug
  /\ Len(regions) = 2
ConcSpec == InitConc /\ [][Next]_vars

\* every gateway call of request r settles: the head arrives, fetch rejects
\* or is aborted, then the body is read or fails, and the event loop resumes
\* the handler at its await
Settles(r) ==
  \/ Timeout(r) \/ FetchRejects(r) \/ HeadersArrive(r) \/ BodyFails(r)
  \/ GetOrderReturns(r) \/ BeginReturns(r) \/ AddReturns(r)
  \/ RemoveReturns(r) \/ CommitReturns(r)
\* one request, details switched on
InitSettle == Init /\ debug
SettleSpec == InitSettle /\ [][Next]_vars /\ WF_vars(Settles(1))

\* the timer of setTimeout fires if it stays armed
TimerSpec == Init /\ [][Next]_vars /\ WF_vars(Timeout(1))

TypeOK ==
  \A r \in Requests :
    /\ pc[r] \in {"idle", "GetOrder", "Begin", "Add", "Remove", "Commit", "done"}
    /\ Len(resp[r]) <= 1


(* ============================ properties ================================ *)
Arrived(r) == pc[r] # "idle"
Answered(r) == pc[r] = "done"
Queries(r) == [i \in 1..Len(calls[r]) |-> calls[r][i].query]
Mutations == {"Begin", "Add", "Remove", "Commit"}

\* the boundary validations a request fails, each with the status and the
\* message of its rejection
BadDomain(inp) == ~(inp.body.shopDomain.t = "str" /\ isValidShop(inp.body.shopDomain))
UnknownShop(inp) == ~BadDomain(inp) /\ inp.body.shopDomain \notin DOMAIN byShop
SecretOf(inp) == byShop[inp.body.shopDomain].flowSecret
BadSecret(inp) ==
  /\ ~BadDomain(inp) /\ ~UnknownShop(inp)
  /\ SecretOf(inp).t = "str" /\ SecretOf(inp).s # << >>
  /\ ~(inp.secret.t = "str" /\ inp.secret.s = SecretOf(inp).s)
IsCanonical(v) == v.t = "str" /\ StartsWith(v.s, GidPrefix)
IsDigits(v) == v.t = "str" /\ Len(v.s) > 0 /\ \A i \in 1..Len(v.s) : v.s[i] \in Digit
ValidRef(v) == IsCanonical(v) \/ IsDigits(v)
BadOrderRef(inp) == ~ValidRef(inp.body.orderGid) /\ ~ValidRef(inp.body.orderId)
BadTitle(inp) ==
  ~(inp.body.targetShippingTitle.t = "str"
    /\ \E i \in 1..Len(inp.body.targetShippingTitle.s) : inp.body.targetShippingTitle.s[i] # " ")
Rejections(inp) ==
  (IF BadDomain(inp) THEN {<<400, <<"Missing/invalid shopDomain">>>>} ELSE {})
  \cup (IF UnknownShop(inp) THEN {<<400, <<"Shop not recognized: ">> \o inp.body.shopDomain.s>>} ELSE {})
  \cup (IF BadSecret(inp) THEN {<<401, <<"Bad X-Flow-Secret">>>>} ELSE {})
  \cup (IF BadOrderRef(inp) THEN {<<400, <<"Missing/invalid orderGid/orderId">>>>} ELSE {})
  \cup (IF BadTitle(inp) THEN {<<400, <<"Missing targetShippingTitle">>>>} ELSE {})

\* C1: a request that fails a boundary validation (domain pattern, registry,
\* shared secret, order reference, title) is answered at once with the 400 or
\* 401 of a validation it fails, and no gateway call, not even the fetch, is
\* issued for it.
C1_RejectedAtBoundary ==
  \A r \in Requests :
    (Arrived(r) /\ Rejections(req[r]) # {}) =>
      /\ calls[r] = << >>
      /\ Answered(r) /\ Len(resp[r]) = 1
      /\ <<resp[r][1].status, resp[r][1].body.error>> \in Rejections(req[r])

\* a request with a blank title, everything else valid, was answered 400
C1_Witness ==
  \E r \in Requests :
    /\ Answered(r) /\ calls[r] = << >>
    /\ Rejections(req[r]) = {<<400, <<"Missing targetShippingTitle">>>>}
    /\ req[r].body.targetShippingTitle = Str(<<" ", " ">>)
    /\ resp[r][1].status = 400

\* C2: for a dry-run request the only gateway call ever issued is the initial
\* fetch (exactly that one once the request passed validation and the region
\* has a credential); Begin, Add, Remove and Commit are never issued, whatever
\* the order and however the request ends.
C2_DryRunOnlyFetches ==
  \A r \in Requests :
    (Arrived(r) /\ req[r].body.dryRun) =>
      /\ \A i \in 1..Len(calls[r]) : calls[r][i].query \notin Mutations
      /\ Len(calls[r]) <= 1
      /\ (Rejections(req[r]) = {} /\ Truthy(loc[r].region.adminToken)) => Queries(r) = <<"GetOrder">>

\* a dry run of an order with a shipping line was answered 200 after one fetch
C2_Witness ==
  \E r \in Requests :
    /\ Answered(r) /\ req[r].body.dryRun
    /\ resp[r][1].status = 200 /\ resp[r][1].body.dryRun = TRUE
    /\ resp[r][1].body.mode = "replace"
    /\ Queries(r) = <<"GetOrder">>


(* the happy path: the request passed the boundary, the region has a        *)
(* credential, and the remote showed no fault (section 7 of the spec counts  *)
(* as remote faults: gateway failures, user-errors, a missing session        *)
(* handle, an unparseable existing price)                                    *)
Live(r) == Arrived(r) /\ ~req[r].body.dryRun /\ Rejections(req[r]) = {}
Fetched(r) == Len(remote[r]) >= 1 /\ remote[r][1] = "data" /\ loc[r].order # Null
LinesOf(order) == IF order.shippingLines = Null THEN << >> ELSE order.shippingLines.nodes.a
HandleIn(d) ==
  /\ d.payload # Null /\ d.payload.calculatedOrder # Null
  /\ d.payload.calculatedOrder.id.t = "str" /\ d.payload.calculatedOrder.id.s # << >>
NoRemoteFault(r) ==
  /\ Len(remote[r]) = Len(calls[r]) /\ Len(calls[r]) >= 1
  /\ \A i \in 1..Len(remote[r]) : remote[r][i] = "data"
  /\ Len(remote[r]) = 2 => HandleIn(loc[r].data)
ReplaceCalls == <<"GetOrder", "Begin", "Add", "Remove", "Commit">>
AddCalls == <<"GetOrder", "Begin", "Add", "Commit">>
IsPrefix(p, q) == Len(p) <= Len(q) /\ SubSeq(q, 1, Len(p)) = p

\* C3: a valid live request on an order with at least one shipping line (of
\* numeric price), with no remote fault, issues exactly GetOrder, Begin, Add,
\* Remove, Commit, once each and in that order; Remove names the first line;
\* the answer is 200, mode "replace", from = the first line (id, title, price),
\* to = the target title and the same price.
C3_ReplaceSequence ==
  \A r \in Requests :
    (Live(r) /\ Fetched(r) /\ LinesOf(loc[r].order) # << >>) =>
      LET first == LinesOf(loc[r].order)[1] IN
        /\ IsPrefix(Queries(r), ReplaceCalls)
        /\ (Answered(r) /\ NoRemoteFault(r) /\ IsFinite(parseFloat(first.amount))) =>
             /\ Queries(r) = ReplaceCalls
             /\ calls[r][4].variables.shippingLineId = first.id
             /\ resp[r] = << [status |-> 200,
                             body |-> [ok |-> TRUE, shopDomain |-> req[r].body.shopDomain,
                                       orderName |-> loc[r].order.name, mode |-> "replace",
                                       from |-> [t |-> "obj", id |-> first.id, title |-> first.title,
                                                 price |-> parseFloat(first.amount)],
                                       to |-> [title |-> req[r].body.targetShippingTitle,
                                               price |-> parseFloat(first.amount)]]] >>

\* a live replace of an order with two different lines was committed
C3_Witness ==
  \E r \in Requests :
    /\ Live(r) /\ Answered(r) /\ Fetched(r) /\ NoRemoteFault(r)
    /\ Len(LinesOf(loc[r].order)) = 2
    /\ LinesOf(loc[r].order)[1].id = "L2" /\ LinesOf(loc[r].order)[2].id = "L1"
    /\ Queries(r) = ReplaceCalls
    /\ resp[r][1].status = 200 /\ resp[r][1].body.from.price = NumV(1250)

LastOutcome(r) == remote[r][Len(remote[r])]
UserErrorsSeen(r) == \E i \in 1..Len(remote[r]) : remote[r][i] = "userErrors"

\* C5: when a mutating step answers with a non-empty userErrors list the
\* request is over at that step: the failing call is the last call of the
\* request for ever after (no later step, no compensating call) and the
\* request has been answered.
C5_AbortOnUserErrors ==
  \A r \in Requests :
    \A i \in 1..Len(remote[r]) :
      remote[r][i] = "userErrors" =>
        /\ i = Len(remote[r]) /\ Len(calls[r]) = i
        /\ calls[r][i].query \in Mutations
        /\ Answered(r) /\ Len(resp[r]) = 1 /\ resp[r][1].status # 200

\* Add answered with user-errors in replace mode: neither Remove nor Commit
\* was issued
C5_Witness ==
  \E r \in Requests :
    /\ Answered(r) /\ Queries(r) = <<"GetOrder", "Begin", "Add">>
    /\ LastOutcome(r) = "userErrors" /\ loc[r].current # Null

\* the step name assertUserErrors is given for each mutation
StepName(q) ==
  CASE q = "Begin" -> "orderEditBegin"
    [] q = "Add" -> "orderEditAddShippingLine"
    [] q = "Remove" -> "orderEditRemoveShippingLine"
    [] q = "Commit" -> "orderEditCommit"
Elements(seq) == {seq[i] : i \in 1..Len(seq)}
Mentions(response, name) ==
  \/ name \in Elements(response.body.error)
  \/ "details" \in DOMAIN response.body /\ name \in Elements(response.body.details.s)
FailedStep(r) == StepName(calls[r][Len(calls[r])].query)

BeginWithoutHandle(r) ==
  /\ Len(remote[r]) = 2 /\ remote[r][2] = "data" /\ ~HandleIn(loc[r].data)

\* C7: when Begin answers without user-errors and without a session handle
\* the request is answered 500 "Missing calculatedOrderId" and Add, Remove and
\* Commit are never issued; a request goes past Begin only with a handle.
C7_MissingHandle ==
  \A r \in Requests :
    /\ BeginWithoutHandle(r) =>
         /\ Answered(r) /\ Queries(r) = <<"GetOrder", "Begin">>
         /\ resp[r] = << [status |-> 500, body |-> [error |-> <<"Missing calculatedOrderId">>]] >>
    /\ Len(calls[r]) >= 3 =>
         /\ loc[r].calculatedOrderId.t = "str" /\ loc[r].calculatedOrderId.s # << >>
         /\ \A i \in 3..Len(calls[r]) : calls[r][i].variables.id = loc[r].calculatedOrderId

\* Begin answered a calculatedOrder whose id is absent
C7_Witness ==
  \E r \in Requests :
    /\ BeginWithoutHandle(r) /\ Answered(r)
    /\ loc[r].data.payload # Null /\ loc[r].data.payload.calculatedOrder # Null
    /\ resp[r][1].status = 500

Is401(r) ==
  /\ Len(resp[r]) >= 1
  /\ resp[r][1].status = 401 /\ resp[r][1].body = [error |-> <<"Bad X-Flow-Secret">>]

\* C8: a request for a region with a configured secret whose header is not
\* byte-equal to the secret (absent and empty included) is answered 401 "Bad
\* X-Flow-Secret"; with the equal header, or for a region without a configured
\* secret, the request is never answered 401.
C8_SecretCheck ==
  \A r \in Requests :
    Arrived(r) =>
      /\ BadSecret(req[r]) => Answered(r) /\ Is401(r)
      /\ ~BadSecret(req[r]) => \A i \in 1..Len(resp[r]) : resp[r][i].status # 401

\* a header that differs from the secret in its last byte only was refused
C8_Witness ==
  \E r \in Requests :
    /\ Answered(r) /\ Is401(r)
    /\ req[r].secret = Str(<<"s","3","x">>) /\ SecretOf(req[r]) = Str(SecretUK)

\* the canonical identifier of a request, by the words of the claim
RefOf(inp) == IF ValidRef(inp.body.orderGid) THEN inp.body.orderGid ELSE inp.body.orderId
CanonicalOf(inp) ==
  IF IsCanonical(RefOf(inp)) THEN RefOf(inp) ELSE Str(GidPrefix \o RefOf(inp).s)
PastSecret(inp) == ~BadDomain(inp) /\ ~UnknownShop(inp) /\ ~BadSecret(inp)
IsBadRefAnswer(r) ==
  /\ Len(resp[r]) >= 1
  /\ resp[r][1].status = 400 /\ resp[r][1].body = [error |-> <<"Missing/invalid orderGid/orderId">>]

\* C9: a request that reaches the order-reference check is answered 400
\* "Missing/invalid orderGid/orderId" exactly when neither orderGid nor
\* orderId is canonical-prefixed or all digits; otherwise every call that
\* names the order (GetOrder, Begin) carries the identifier taken from
\* orderGid when that is valid and from orderId otherwise, unchanged when
\* prefixed and wrapped as gid://shopify/Order/<digits> when all digits.
C9_OrderReference ==
  \A r \in Requests :
    (Arrived(r) /\ PastSecret(req[r])) =>
      /\ IsBadRefAnswer(r) <=> BadOrderRef(req[r])
      /\ ~BadOrderRef(req[r]) =>
           \A i \in 1..Len(calls[r]) :
             calls[r][i].query \in {"GetOrder", "Begin"} =>
               calls[r][i].variables.id = CanonicalOf(req[r])

\* an invalid orderGid and a numeric orderId: the fetch names the wrapped
\* orderId
C9_Witness ==
  \E r \in Requests :
    /\ Arrived(r)
    /\ req[r].body.orderGid = Str(<<"4","x">>) /\ req[r].body.orderId = Str(<<"7">>)
    /\ Len(calls[r]) >= 1
    /\ calls[r][1].variables.id = Str(GidPrefix \o <<"7">>)

\* the fetch answered data in which the order is null
OrderMissing(r) == Len(remote[r]) >= 1 /\ remote[r][1] = "data" /\ loc[r].order = Null

\* C10: when the fetch succeeds and reports no order, the request is
\* answered 404 "Order not found" and no call follows the fetch, for dry-run
\* and live requests alike.
C10_OrderNotFound ==
  \A r \in Requests :
    OrderMissing(r) =>
      /\ Answered(r) /\ Queries(r) = <<"GetOrder">>
      /\ resp[r] = << [status |-> 404, body |-> [error |-> <<"Order not found">>]] >>

\* a live request whose order does not exist was answered 404
C10_Witness ==
  \E r \in Requests :
    /\ OrderMissing(r) /\ ~req[r].body.dryRun /\ Answered(r)
    /\ resp[r][1].status = 404


Failures(r) == {i \in 1..Len(resp[r]) : resp[r][i].status # 200}

\* C11: every non-success answer has a status among 400, 401, 404, 500 and a
\* body with an error message; the body has a details member only when the
\* debug toggle is on, so with the toggle off no failure answer carries
\* details (stack or echoed input).
C11_FailureShape ==
  \A r \in Requests :
    \A i \in Failures(r) :
      /\ resp[r][i].status \in {400, 401, 404, 500}
      /\ "error" \in DOMAIN resp[r][i].body /\ resp[r][i].body.error # << >>
      /\ DOMAIN resp[r][i].body \subseteq {"error", "details"}
      /\ "details" \in DOMAIN resp[r][i].body => debug

\* with the toggle off, a gateway timeout was answered without the stack
C11_Witness ==
  \E r \in Requests :
    /\ ~debug /\ Answered(r) /\ Len(remote[r]) >= 1 /\ LastOutcome(r) = "timeout"
    /\ resp[r][1] = [status |-> 500, body |-> [error |-> <<"Server error">>]]

FiniteNumber(v) == v.t = "num" /\ v.k = "fin"
HasCallerPrice(inp) == inp.body.targetShippingPrice \notin {Undef, Null}
AddPrices(r) == {calls[r][i].variables.price : i \in {j \in 1..Len(calls[r]) : calls[r][j].query = "Add"}}
IsBadPriceAnswer(r) ==
  /\ Len(resp[r]) >= 1 /\ resp[r][1].status = 400
  /\ resp[r][1].body.error = <<"Invalid targetShippingPrice">>

\* C12: when the order has a current line, the price of the Add call and of
\* the answer is the price read from that line and targetShippingPrice has no
\* effect, not even a non-finite one (it is never refused); when the order has
\* no line the price is the caller's value if given and 0 otherwise.
C12_PriceCarryOver ==
  \A r \in Requests :
    (Arrived(r) /\ Fetched(r)) =>
      LET lines == LinesOf(loc[r].order)
          p == IF lines # << >> THEN parseFloat(lines[1].amount)
               ELSE IF HasCallerPrice(req[r]) THEN parseFloat(req[r].body.targetShippingPrice)
               ELSE NumV(0)
      IN /\ AddPrices(r) \subseteq {p}
         /\ (Answered(r) /\ resp[r][1].status = 200) =>
              /\ resp[r][1].body.to.price = p
              /\ lines # << >> => resp[r][1].body.from.price = p
         /\ lines # << >> => ~IsBadPriceAnswer(r)

\* a live replace with an unparseable caller price was committed at the
\* price of the line
C12_Witness ==
  \E r \in Requests :
    /\ Live(r) /\ Answered(r) /\ Fetched(r)
    /\ req[r].body.targetShippingPrice = Str(<<"a","b","c">>)
    /\ LinesOf(loc[r].order) # << >>
    /\ resp[r][1].status = 200 /\ resp[r][1].body.to.price = NumV(500)
    /\ AddPrices(r) = {NumV(500)}

BadExistingPrice(r) ==
  /\ Fetched(r) /\ LinesOf(loc[r].order) # << >>
  /\ ~FiniteNumber(parseFloat(LinesOf(loc[r].order)[1].amount))
BadCallerPrice(r) ==
  /\ Fetched(r) /\ LinesOf(loc[r].order) = << >>
  /\ HasCallerPrice(req[r]) /\ ~FiniteNumber(parseFloat(req[r].body.targetShippingPrice))

\* C13: an existing price that does not parse to a finite number is answered
\* 500, a caller price that does not (when there is no current line) is
\* answered 400, and in both cases no mutation is issued, for dry-run and
\* live requests alike.
C13_InvalidPrice ==
  \A r \in Requests :
    /\ BadExistingPrice(r) =>
         /\ Answered(r) /\ Queries(r) = <<"GetOrder">> /\ Len(resp[r]) = 1
         /\ resp[r][1].status = 500
         /\ resp[r][1].body.error = <<"Invalid existing shipping price">>
    /\ BadCallerPrice(r) =>
         /\ Answered(r) /\ Queries(r) = <<"GetOrder">> /\ Len(resp[r]) = 1
         /\ resp[r][1].status = 400
         /\ resp[r][1].body.error = <<"Invalid targetShippingPrice">>

\* a live request met a line whose amount is not a number
C13_Witness ==
  \E r \in Requests :
    /\ BadExistingPrice(r) /\ ~req[r].body.dryRun /\ Answered(r)
    /\ LinesOf(loc[r].order)[1].amount = Str(<<"n","/","a">>)
    /\ resp[r][1].status = 500

\* C14 as stated: a request whose targetShippingPrice is not a finite number
\* is answered 400 at the boundary, with no gateway call at all.
C14_BadPriceRejectedAtBoundary ==
  \A r \in Requests :
    (Arrived(r) /\ Rejections(req[r]) = {} /\ HasCallerPrice(req[r])
       /\ ~FiniteNumber(parseFloat(req[r].body.targetShippingPrice))) =>
      /\ Answered(r) /\ calls[r] = << >>
      /\ resp[r][1].status = 400

\* C14 (amended): a bad caller price is found only after the fetch: the 400
\* "Invalid targetShippingPrice" is sent exactly when the fetch returned an
\* order without shipping lines and the given price is not a finite number,
\* after exactly one gateway call (the fetch) and no mutation.
C14_BadPriceRejectedAfterFetch ==
  \A r \in Requests :
    Arrived(r) =>
      /\ IsBadPriceAnswer(r) <=> BadCallerPrice(r)
      /\ IsBadPriceAnswer(r) => Answered(r) /\ Queries(r) = <<"GetOrder">>

\* a live add with the price "abc" was refused after the fetch
C14_Witness ==
  \E r \in Requests :
    /\ Answered(r) /\ IsBadPriceAnswer(r) /\ ~req[r].body.dryRun
    /\ req[r].body.targetShippingPrice = Str(<<"a","b","c">>)
    /\ Queries(r) = <<"GetOrder">>

GatewayFailures == {"timeout", "rejected", "http", "nonjson", "errors", "read"}
IsServerError(r) ==
  /\ Len(resp[r]) = 1 /\ resp[r][1].status = 500
  /\ resp[r][1].body.error = <<"Server error">>
NoCredential(r) ==
  /\ Arrived(r) /\ Rejections(req[r]) = {}
  /\ ~(byShop[req[r].body.shopDomain].adminToken.t = "str")

\* C15: a gateway call that fails (no credential, timeout, network, HTTP
\* status, unparseable body, top-level errors) gives the handler no data and
\* ends the request with the generic 500 "Server error"; the failed call is
\* the last call for ever after (no later step, no retry, no compensation),
\* so a failure after Add leaves the session uncommitted.
C15_GatewayFailureAborts ==
  \A r \in Requests :
    /\ \A i \in 1..Len(remote[r]) :
         remote[r][i] \in GatewayFailures =>
           /\ i = Len(remote[r]) /\ Len(calls[r]) = i
           /\ Answered(r) /\ IsServerError(r)
           /\ i = 1 => loc[r].order = Unset
           /\ i = 2 => loc[r].calculatedOrderId = Unset
           /\ i >= 3 => ~(\E j \in 1..i - 1 : calls[r][j].query = "Commit")
    /\ NoCredential(r) => Answered(r) /\ calls[r] = << >> /\ IsServerError(r)
    /\ IsPrefix(Queries(r), ReplaceCalls) \/ IsPrefix(Queries(r), AddCalls)

\* Remove timed out after Add had succeeded: Commit was never issued
C15_Witness ==
  \E r \in Requests :
    /\ Answered(r) /\ Queries(r) = <<"GetOrder", "Begin", "Add", "Remove">>
    /\ LastOutcome(r) = "timeout" /\ IsServerError(r)


\* C16 as stated: while a gateway call is in flight, in any phase, the
\* timeout is armed.
C16_TimerArmedWhileInFlight ==
  \A r \in Requests : InFlight(r) => net[r].timer

\* C16, what the code does: the timeout is armed exactly while the response head is
\* awaited, and under fairness of the timer that wait always ends (head
\* received, network failure or timeout); once the head has arrived the timer
\* is cleared and reading the body is not bounded by it.
C16_TimerArmedForHeadOnly ==
  /\ [](\A r \in Requests : InFlight(r) => (net[r].timer <=> net[r].phase = "headers"))
  /\ (net[1].phase = "headers") ~> (net[1].phase # "headers")

\* the body of the Commit answer is being read with the timer cleared
C16_Witness ==
  \E r \in Requests : pc[r] = "Commit" /\ net[r].phase = "body" /\ ~net[r].timer


\* the answer of a live run: 200 without the dryRun member
LiveSuccess(r) ==
  Answered(r) /\ resp[r][1].status = 200 /\ "dryRun" \notin DOMAIN resp[r][1].body
\* the i-th call of r has returned data without gateway error or user-errors
ReturnedClean(r, i) == i <= Len(remote[r]) /\ remote[r][i] = "data"
CommitAt(r) == {i \in 1..Len(calls[r]) : calls[r][i].query = "Commit"}

\* C19: the live 200 answer is given exactly when Commit was issued and
\* returned without gateway error and without user-errors; a request answered
\* with a failure either never issued Commit or failed at Commit (its last
\* call); and whenever Commit has been issued, Add (and Remove, when the order
\* had a shipping line) was issued before it and had returned clean.
C19_SuccessIffCommitted ==
  \A r \in Requests :
    /\ LiveSuccess(r) <=> (Answered(r) /\ \E i \in CommitAt(r) : ReturnedClean(r, i))
    /\ (Answered(r) /\ resp[r][1].status # 200) =>
         \/ CommitAt(r) = {}
         \/ /\ CommitAt(r) = {Len(calls[r])}
            /\ ~ReturnedClean(r, Len(calls[r]))
    /\ \A i \in CommitAt(r) :
         /\ \E j \in 1..i - 1 : calls[r][j].query = "Add" /\ ReturnedClean(r, j)
         /\ Truthy(loc[r].current) =>
              \E j \in 1..i - 1 : calls[r][j].query = "Remove" /\ ReturnedClean(r, j)

\* a replace run that failed at Commit itself, after Add and Remove were clean
C19_Witness ==
  \E r \in Requests :
    /\ Answered(r) /\ Queries(r) = ReplaceCalls
    /\ LastOutcome(r) = "userErrors" /\ resp[r][1].status = 500


\* what startup builds from some environment
BuiltAtStartup ==
  \E env \in Environments :
    regions = FilterShop(Candidates(env)) /\ byShop = MapOf(FilterShop(Candidates(env)))
NoDuplicates(seq) == \A i, j \in 1..Len(seq) : seq[i] = seq[j] => i = j
DomainsOf(rs) == [i \in 1..Len(rs) |-> rs[i].shop]
\* the region a request was resolved to is the one of exactly its shopDomain
ExactLookup(r) ==
  (Arrived(r) /\ loc[r].region # Unset /\ Truthy(loc[r].region)) =>
     /\ loc[r].region.shop = req[r].body.shopDomain
     /\ \E i \in 1..Len(regions) : regions[i] = loc[r].region

\* C18 as stated: the registry holds no candidate without a storefront
\* domain, no two regions of the registry share a domain (nor do two entries
\* of the shops list GET /health reports), a request is resolved to the region
\* whose domain equals its shopDomain exactly, and the registry is at all
\* times what startup built.
C18_RegistryInvariant ==
  /\ \A i \in 1..Len(regions) : Truthy(regions[i].shop)
  /\ NoDuplicates(DomainsOf(regions))
  /\ health # Undef => NoDuplicates(health.shops.a)
  /\ \A r \in Requests : ExactLookup(r)
  /\ BuiltAtStartup

\* C18, what the code does: everything but uniqueness. With two candidates of
\* one domain the lookup table keeps the later one, and GET /health lists the
\* domain once per candidate.
C18_RegistryExceptUniqueness ==
  /\ \A i \in 1..Len(regions) : Truthy(regions[i].shop)
  /\ \A r \in Requests : ExactLookup(r)
  /\ BuiltAtStartup
  /\ \A i \in 1..Len(regions) :
       byShop[regions[i].shop] =
         regions[CHOOSE j \in i..Len(regions) :
                   regions[j].shop = regions[i].shop
                   /\ \A k \in j + 1..Len(regions) : regions[k].shop # regions[i].shop]
  /\ health # Undef => health.shops.a = DomainsOf(regions)

\* GET /health has reported one storefront domain twice, and a request for
\* that domain carrying no secret went past the secret check
C18_Witness ==
  \E r \in Requests :
    /\ health # Undef /\ ~NoDuplicates(health.shops.a)
    /\ Arrived(r) /\ req[r].secret = Undef /\ req[r].body.shopDomain = Str(UKShop)
    /\ Len(calls[r]) >= 1 /\ calls[r][1].token = Str(<<"tokEU">>)


\* r1 is a dry run and r2 a live run of the same request body, both answered
\* 200 on the same fetched order
DryAndLive(r1, r2) ==
  /\ Answered(r1) /\ Answered(r2)
  /\ req[r1].body.dryRun /\ ~req[r2].body.dryRun
  /\ req[r1].body = [req[r2].body EXCEPT !.dryRun = TRUE]
  /\ loc[r1].order = loc[r2].order
  /\ resp[r1][1].status = 200 /\ resp[r2][1].status = 200
ResultFields == {"shopDomain", "orderName", "mode", "from", "to"}

\* C17: a dry run and a successful live run of the same request body on the
\* same fetched order answer with the same shopDomain, orderName, mode, from
\* and to; the only difference between the two bodies is the member
\* dryRun: true of the dry run.
C17_DryRunLiveEquivalence ==
  \A r1, r2 \in Requests :
    DryAndLive(r1, r2) =>
      LET dry == resp[r1][1].body
          live == resp[r2][1].body
      IN /\ ResultFields \subseteq DOMAIN live
         /\ DOMAIN dry = DOMAIN live \cup {"dryRun"} /\ "dryRun" \notin DOMAIN live
         /\ dry.dryRun = TRUE
         /\ \A f \in DOMAIN live : dry[f] = live[f]

\* a dry run and a committed replacement of the same order, the caller's price
\* differing from the line's
C17_Witness ==
  \E r1, r2 \in Requests :
    /\ DryAndLive(r1, r2)
    /\ Queries(r1) = <<"GetOrder">> /\ Queries(r2) = ReplaceCalls
    /\ req[r2].body.targetShippingPrice = NumV(250)
    /\ resp[r2][1].body.mode = "replace"


\* the calls of r go to the storefront of r's own shopDomain with that
\* region's credential, and those made within the session carry the handle
\* the remote gave to r's own Begin
OwnRegionAndSession(r) ==
  \A i \in 1..Len(calls[r]) :
    /\ calls[r][i].shop = req[r].body.shopDomain
    /\ calls[r][i].token = byShop[req[r].body.shopDomain].adminToken
    /\ calls[r][i].query \in {"Add", "Remove", "Commit"} =>
         /\ session[r] # Unset /\ session[r].t = "str"
         /\ calls[r][i].variables.id = session[r]
\* every call but the last has been answered, the last one is pending exactly
\* while the handler is suspended on it
OneCallAtATime(r) ==
  Len(calls[r]) - Len(remote[r]) = IF InFlight(r) THEN 1 ELSE 0
\* two answered requests that were given the same request and the same
\* remote answers
SameInputs(r1, r2) ==
  /\ Answered(r1) /\ Answered(r2)
  /\ req[r1] = req[r2] /\ remote[r1] = remote[r2]
  /\ loc[r1].order = loc[r2].order /\ session[r1] = session[r2]
\* a step that is not a step of request r leaves everything of r as it was
OthersUntouched ==
  \A r \in ConcRequests :
    (pc'[r] = pc[r] /\ net'[r] = net[r]) =>
      /\ req'[r] = req[r] /\ loc'[r] = loc[r] /\ calls'[r] = calls[r]
      /\ resp'[r] = resp[r] /\ remote'[r] = remote[r] /\ session'[r] = session[r]

\* C20: under every interleaving of the steps of concurrently handled
\* requests, the Add, Remove and Commit calls of a request carry the handle
\* its own Begin was given, each of its calls goes to the storefront and with
\* the credential of the region of its own shopDomain, it has at most one
\* call in flight, its calls and its answer are determined by its own request
\* and its own remote answers, and no step of another request changes its
\* locals, its calls or its answer.
C20_RequestsIsolated ==
  /\ [](\A r \in Requests :
          /\ OwnRegionAndSession(r)
          /\ OneCallAtATime(r))
  /\ [](\A r1, r2 \in Requests :
          SameInputs(r1, r2) => calls[r1] = calls[r2] /\ resp[r1] = resp[r2])
  /\ [][OthersUntouched]_vars

\* two requests for different storefronts, both suspended on a call of their
\* session, each session with its own handle
C20_Witness ==
  /\ pc[1] = "Remove" /\ pc[2] = "Commit"
  /\ req[1].body.shopDomain # req[2].body.shopDomain
  /\ session[1] = Str(<<"calc-1">>) /\ session[2] = Str(<<"calc-2">>)
  /\ calls[1][4].variables.id = session[1] /\ calls[2][4].variables.id = session[2]


\* a response, once sent, is the response of the request for ever
ResponseKept == \A r \in Requests : resp[r] # << >> => resp'[r] = resp[r]

\* C21: a request has at no time more than one response, the handler is over
\* exactly when it has sent one, a response that was sent is never followed
\* by another, and when every gateway call of the request settles, the
\* request that arrived ends up with its one response.
C21_ExactlyOneResponse ==
  /\ [](\A r \in Requests :
          /\ Len(resp[r]) <= 1
          /\ Answered(r) <=> Len(resp[r]) = 1
          /\ (Arrived(r) /\ ~InFlight(r)) => Answered(r))
  /\ [][ResponseKept]_vars
  /\ Arrived(1) ~> (Len(resp[1]) = 1)

\* Commit, the fifth call, failed after four clean answers: the catch clause
\* sent the one response of the request
C21_Witness ==
  \E r \in Requests :
    /\ Answered(r) /\ Len(calls[r]) = 5 /\ LastOutcome(r) \in GatewayFailures
    /\ resp[r] = << Caught(Stack("Error", <<"Shopify GraphQL ", LastOutcome(r)>>)) >>

====
